---- MODULE Spec2Model ----
(***************************************************************************)
(* Model of src/main.py: the lazily loaded process-wide model              *)
(* (_load_model), the move-decision entrypoint (test_func) and the game    *)
(* reset hook (reset_func).                                                *)
(*                                                                         *)
(* Numbers.  policy_probs entries and their sum are counted in units of    *)
(* 1e-10, so the comparison `total_prob > 1e-10` of the source is          *)
(* `total > THRESHOLD` with THRESHOLD = 1.  A probability handed to the    *)
(* Observer is an exact fraction <<num, den>> (den > 0): prob / total_prob *)
(* is <<prob, total_prob>> and 1.0 / n is <<1, n>>.  Floating-point        *)
(* rounding is not modelled.                                               *)
(*                                                                         *)
(* A Python dict is a sequence of <<key, value>> pairs in insertion order, *)
(* which is the order dict.items() iterates in.                            *)
(***************************************************************************)
EXTENDS Integers, Sequences, FiniteSets

\* ------------------------------------------------------------------ bounds
\* Moves of the universe; a position has between 0 and NumMoves legal moves.
NumMoves == 3
\* policy_probs entries range over 0..MaxWeight (units of 1e-10).
MaxWeight == 2

\* ------------------------------------------------------- program constants
\* policy_size=4672: the length of policy_probs.
POLICY_SIZE == 4672
\* The literal 1e-10 of `if total_prob > 1e-10`, in units of 1e-10.
THRESHOLD == 1

VARIABLES
    _model,          \* global _model: [constructed, weights, evalMode]
    _encode_board,   \* global _encode_board: "None" or "encode_board"
    _encode_move,    \* global _encode_move: "None" or "encode_move"
    pc,              \* "idle": the host is between calls; "done": a call ended
    op,              \* the handler that ran last: "none", "test_func", "reset_func"
    board,           \* ctx.board: the position's legal moves, in generation order
    legal_moves,     \* local legal_moves of the call (<<>> until enumerated)
    codec,           \* what encode_move answered for each legal move it was asked
    policy_probs,    \* local policy_probs at the indices the codec can name
    reported,        \* the arguments of ctx.logProbabilities in this call, in order
    printed,         \* the lines print() wrote in this call, in order
    outcome,         \* how the call ended
    result,          \* <<move>> when the call returned a move, else <<>>
    loadTried,       \* the call went past `if _model is not None` and loaded
    attempted        \* reset_func: the cleanup substeps attempted, in order

vars == <<_model, _encode_board, _encode_move, pc, op, board, legal_moves, codec,
          policy_probs, reported, printed, outcome, result, loadTried, attempted>>

\* ----------------------------------------------------------------- helpers
Range(s) == {s[i] : i \in 1..Len(s)}

Moves == 1..NumMoves

\* Positions: generate_legal_moves yields each legal move once.
Positions ==
    {s \in UNION {[1..n -> Moves] : n \in 0..NumMoves} :
        \A i, j \in 1..Len(s) : i # j => s[i] # s[j]}

\* encode_move(move, board) either raises or returns an integer; the integers
\* sampled are the two ends of the valid range and their outer neighbours.
SampleIdx == {-1, 0, POLICY_SIZE - 1, POLICY_SIZE}
CodecOutcomes ==
    {[raised |-> TRUE, idx |-> 0]} \cup {[raised |-> FALSE, idx |-> i] : i \in SampleIdx}

\* policy_probs = softmax(...): non-negative entries, sampled at the valid indices.
Policies == [{i \in SampleIdx : 0 <= i /\ i < POLICY_SIZE} -> 0..MaxWeight]

Msg(text, move) == [msg |-> text, move |-> move]

\* ------------------------------------------------------------- _load_model
NoModel == [constructed |-> FALSE, weights |-> FALSE, evalMode |-> FALSE]

\* Where the body of the try block raises ("none": nowhere).
LoadFaults ==
    {"none", "download", "import", "encode_move_attr", "construct",
     "load_state_dict", "eval"}

\* _load_model(): the globals after the call, whether it returned or raised,
\* and what it printed.  g is the record of the three globals before the call.
_load_model(g, fault) ==
    IF g.model.constructed
    THEN [model |-> g.model, eb |-> g.eb, em |-> g.em, ok |-> TRUE,
          tried |-> FALSE, printed |-> <<>>]
    ELSE
      LET loading == <<Msg("Loading chess model from HuggingFace...", 0)>>
          failed  == loading \o <<Msg("Error loading model", 0)>>
          raise(m, eb, em) ==
              [model |-> m, eb |-> eb, em |-> em, ok |-> FALSE,
               tried |-> TRUE, printed |-> failed]
      IN CASE fault \in {"download", "import"} ->
                raise(g.model, g.eb, g.em)
           [] fault = "encode_move_attr" ->
                raise(g.model, "encode_board", g.em)
           [] fault = "construct" ->
                raise(g.model, "encode_board", "encode_move")
           [] fault = "load_state_dict" ->
                raise([constructed |-> TRUE, weights |-> FALSE, evalMode |-> FALSE],
                      "encode_board", "encode_move")
           [] fault = "eval" ->
                raise([constructed |-> TRUE, weights |-> TRUE, evalMode |-> FALSE],
                      "encode_board", "encode_move")
           [] OTHER ->
                [model |-> [constructed |-> TRUE, weights |-> TRUE, evalMode |-> TRUE],
                 eb |-> "encode_board", em |-> "encode_move", ok |-> TRUE,
                 tried |-> TRUE,
                 printed |-> loading \o <<Msg("Model loaded successfully!", 0)>>]

\* ------------------------------------------------------ test_func: helpers
\* `0 <= move_idx < len(policy_probs)`
IndexInRange(move_idx) == 0 <= move_idx /\ move_idx < POLICY_SIZE

\* The for loop over legal_moves: a move is appended to valid_moves when
\* encode_move returned and the index is in range ...
valid_moves(legal, c) ==
    SelectSeq(legal, LAMBDA m : ~c[m].raised /\ IndexInRange(c[m].idx))

\* ... with its index appended to move_indices ...
move_indices(legal, c) ==
    LET valid == valid_moves(legal, c)
    IN [i \in 1..Len(valid) |-> c[valid[i]].idx]

\* ... and the except branch prints one warning for a move whose lookup raised.
EncodeWarnings(legal, c) ==
    LET bad == SelectSeq(legal, LAMBDA m : c[m].raised)
    IN [i \in 1..Len(bad) |-> Msg("Warning: Failed to encode move", bad[i])]

\* Dicts as sequences of <<key, value>> pairs.
Keys(d) == {d[i][1] : i \in 1..Len(d)}
Value(d, k) == d[CHOOSE i \in 1..Len(d) : d[i][1] = k][2]

\* {move: uniform_prob for move in moves} with uniform_prob = 1.0 / len(moves)
Uniform(moves) == [i \in 1..Len(moves) |-> <<moves[i], <<1, Len(moves)>>>>]

\* Mutant: the `if not valid_moves` fallback is never taken.
NoValidMovesNever(valid) == FALSE

\* `if not valid_moves`
NoValidMoves(valid) == valid = <<>>

\* Mutant: the fallback returns the last legal move instead of the first.
AllInvalidFallbackLast(legal) ==
    [move_probs |-> [i \in 1..Len(legal) |-> <<legal[i], <<1, Len(legal)>>>>],
     move |-> legal[Len(legal)]]

\* The fallback when no move has a valid index: the dict logged and the move
\* returned.
AllInvalidFallback(legal) ==
    [move_probs |-> Uniform(legal), move |-> legal[1]]

\* {move: prob.item() for move, prob in zip(valid_moves, policy_probs[move_indices])}
RawMoveProbs(valid, indices, policy) ==
    [i \in 1..Len(valid) |-> <<valid[i], policy[indices[i]]>>]

RECURSIVE SumValues(_)
\* sum(move_probs.values())
SumValues(d) == IF d = <<>> THEN 0 ELSE d[1][2] + SumValues(Tail(d))

\* Mutant: the near-zero fallback is forgotten and the weights are always
\* divided by total_prob.
NormalizeAlwaysDivide(raw) ==
    [i \in 1..Len(raw) |-> <<raw[i][1], <<raw[i][2], SumValues(raw)>>>>]

\* Normalisation: divide by total_prob above the threshold, else uniform over
\* the dict's keys (valid_moves).  The dict is non-empty here.
Normalize(raw) ==
    LET total_prob == SumValues(raw)
    IN IF total_prob > THRESHOLD
       THEN [i \in 1..Len(raw) |-> <<raw[i][1], <<raw[i][2], total_prob>>>>]
       ELSE Uniform([i \in 1..Len(raw) |-> raw[i][1]])

\* p < q for fractions with positive denominators.
Less(p, q) == p[1] * q[2] < q[1] * p[2]

\* Mutant: among equal maxima the last item wins (>= instead of >).
BestMoveLast(move_probs) ==
    LET i == CHOOSE i \in 1..Len(move_probs) :
                 /\ \A j \in 1..Len(move_probs) :
                        ~Less(move_probs[i][2], move_probs[j][2])
                 /\ \A j \in (i + 1)..Len(move_probs) :
                        Less(move_probs[j][2], move_probs[i][2])
    IN move_probs[i][1]

\* max(move_probs.items(), key=lambda x: x[1])[0]: Python's max keeps the first
\* item seen and replaces it only by a strictly greater one.
BestMove(move_probs) ==
    LET i == CHOOSE i \in 1..Len(move_probs) :
                 /\ \A j \in 1..Len(move_probs) :
                        ~Less(move_probs[i][2], move_probs[j][2])
                 /\ \A j \in 1..(i - 1) :
                        Less(move_probs[j][2], move_probs[i][2])
    IN move_probs[i][1]

\* From the for loop to the return, given the enumerated moves, the codec's
\* answers and policy_probs.
Decide(legal, c, policy) ==
    LET valid    == valid_moves(legal, c)
        warnings == EncodeWarnings(legal, c)
    IN IF NoValidMoves(valid)
       THEN LET f == AllInvalidFallback(legal)
            IN [reported |-> <<f.move_probs>>, result |-> <<f.move>>,
                outcome |-> "returned", printed |-> warnings]
       ELSE IF valid = <<>>
       THEN \* total_prob = 0, and 1.0 / len(valid_moves) divides by zero
            [reported |-> <<>>, result |-> <<>>,
             outcome |-> "raised ZeroDivisionError", printed |-> warnings]
       ELSE LET move_probs ==
                    Normalize(RawMoveProbs(valid, move_indices(legal, c), policy))
            IN [reported |-> <<move_probs>>, result |-> <<BestMove(move_probs)>>,
                outcome |-> "returned",
                printed |-> warnings \o <<Msg("Top 3 moves", 0)>>]

\* Where the steps between the enumeration and the policy raise.
StepFaults == {"none", "encode_board", "model"}

\* The call gets as far as the codec lookups.
ReachesLookups(g, lf, b, sf) ==
    _load_model(g, lf).ok /\ b # <<>> /\ sf = "none"

\* test_func(ctx) as a whole: b is ctx.board's legal moves, lf and sf say where
\* loading and the steps before the lookups raise, c and p are the codec's
\* answers and policy_probs.
TestFunc(g, lf, b, sf, c, p) ==
    LET l    == _load_model(g, lf)
        base == [model |-> l.model, eb |-> l.eb, em |-> l.em, tried |-> l.tried,
                 legal |-> <<>>, reported |-> <<>>, result |-> <<>>,
                 printed |-> l.printed, outcome |-> "raised RuntimeError: load"]
        eval == l.printed \o <<Msg("Evaluating position...", 0)>>
    IN IF ~l.ok THEN base
       ELSE IF b = <<>>
       THEN [base EXCEPT !.reported = << <<>> >>, !.printed = eval,
                         !.outcome = "raised ValueError: no legal moves"]
       ELSE IF sf = "encode_board"
       THEN [base EXCEPT !.legal = b, !.printed = eval,
                         !.outcome = "raised: encode_board"]
       ELSE IF sf = "model"
       THEN [base EXCEPT !.legal = b, !.printed = eval,
                         !.outcome = "raised: model"]
       ELSE LET d == Decide(b, c, p)
            IN [base EXCEPT !.legal = b, !.reported = d.reported,
                            !.result = d.result, !.outcome = d.outcome,
                            !.printed = eval \o <<Msg("Position evaluation", 0)>>
                                             \o d.printed]

\* ------------------------------------------------------------- reset_func
\* Mutant: clearing the Observer is not wrapped in try/except.
PropagatesClearFailure(substep) == substep = "logProbabilities"

\* Whether an exception raised by a cleanup substep leaves reset_func: each
\* substep sits in its own try/except Exception, so none does.
Propagates(substep) == FALSE

\* reset_func(ctx) as a whole: which substeps were attempted, what was
\* printed, and how the call ended.  clearFails, cudaFails and evalFails say
\* which of ctx.logProbabilities({}), torch.cuda.empty_cache() and
\* _model.eval() raise.
ResetFunc(model, clearFails, cudaFails, evalFails) ==
    LET raised == [attempted |-> <<>>, printed |-> <<>>, reported |-> <<>>,
                   model |-> model, outcome |-> "raised"]
        s1 == IF clearFails
              THEN [raised EXCEPT
                      !.attempted = <<"logProbabilities">>,
                      !.printed = IF Propagates("logProbabilities") THEN <<>>
                                  ELSE <<Msg("reset_func: failed to clear move probabilities", 0)>>,
                      !.outcome = IF Propagates("logProbabilities")
                                  THEN "raised" ELSE "running"]
              ELSE [raised EXCEPT !.attempted = <<"logProbabilities">>,
                                  !.reported = << <<>> >>,
                                  !.outcome = "running"]
        s2 == IF s1.outcome # "running" THEN s1
              ELSE IF cudaFails
              THEN [s1 EXCEPT
                      !.attempted = @ \o <<"empty_cache">>,
                      !.printed = IF Propagates("empty_cache") THEN @
                                  ELSE @ \o <<Msg("reset_func: torch.cuda.empty_cache() failed or not available", 0)>>,
                      !.outcome = IF Propagates("empty_cache")
                                  THEN "raised" ELSE "running"]
              ELSE [s1 EXCEPT !.attempted = @ \o <<"empty_cache">>]
        s3 == IF s2.outcome # "running" \/ ~model.constructed THEN s2
              ELSE IF evalFails
              THEN [s2 EXCEPT
                      !.attempted = @ \o <<"eval">>,
                      !.printed = IF Propagates("eval") THEN @
                                  ELSE @ \o <<Msg("reset_func: failed to set model to eval()", 0)>>,
                      !.outcome = IF Propagates("eval")
                                  THEN "raised" ELSE "running"]
              ELSE [s2 EXCEPT !.attempted = @ \o <<"eval">>,
                              !.model = [model EXCEPT !.evalMode = TRUE]]
    IN IF s3.outcome # "running" THEN s3
       ELSE [s3 EXCEPT
               !.printed = @ \o <<Msg("reset_func: model/game reset completed", 0)>>,
               !.outcome = "completed"]

Globals == [model |-> _model, eb |-> _encode_board, em |-> _encode_move]

\* ----------------------------------------------------------------- actions
Init ==
    /\ _model = NoModel
    /\ _encode_board = "None"
    /\ _encode_move = "None"
    /\ pc = "idle"
    /\ op = "none"
    /\ board = <<>>
    /\ legal_moves = <<>>
    /\ codec = <<>>
    /\ policy_probs = <<>>
    /\ reported = <<>>
    /\ printed = <<>>
    /\ outcome = "none"
    /\ result = <<>>
    /\ loadTried = FALSE
    /\ attempted = <<>>

\* @chess_manager.entrypoint: the host calls test_func(ctx) for one turn.
test_func ==
    /\ pc = "idle"
    /\ \E lf \in IF _model.constructed THEN {"none"} ELSE LoadFaults,
          b \in Positions, sf \in StepFaults :
         \E c \in IF ReachesLookups(Globals, lf, b, sf)
                  THEN [Range(b) -> CodecOutcomes] ELSE {<<>>},
            p \in IF ReachesLookups(Globals, lf, b, sf) THEN Policies ELSE {<<>>} :
           \E r \in {TestFunc(Globals, lf, b, sf, c, p)} :
              /\ _model' = r.model
              /\ _encode_board' = r.eb
              /\ _encode_move' = r.em
              /\ board' = b
              /\ legal_moves' = r.legal
              /\ codec' = c
              /\ policy_probs' = p
              /\ reported' = r.reported
              /\ printed' = r.printed
              /\ outcome' = r.outcome
              /\ result' = r.result
              /\ loadTried' = r.tried
    /\ pc' = "done"
    /\ op' = "test_func"
    /\ UNCHANGED attempted

\* @chess_manager.reset: the host calls reset_func(ctx) for a new game.
reset_func ==
    /\ pc = "idle"
    /\ \E clearFails \in BOOLEAN, cudaFails \in BOOLEAN,
          evalFails \in IF _model.constructed THEN BOOLEAN ELSE {FALSE} :
         \E r \in {ResetFunc(_model, clearFails, cudaFails, evalFails)} :
            /\ _model' = r.model
            /\ reported' = r.reported
            /\ printed' = r.printed
            /\ outcome' = r.outcome
            /\ attempted' = r.attempted
    /\ pc' = "done"
    /\ op' = "reset_func"
    /\ board' = <<>>
    /\ legal_moves' = <<>>
    /\ codec' = <<>>
    /\ policy_probs' = <<>>
    /\ result' = <<>>
    /\ loadTried' = FALSE
    /\ UNCHANGED <<_encode_board, _encode_move>>

\* The handler's frame is gone: the host has taken the result (or the
\* exception) and is ready for its next call.  Only the globals survive.
host_return ==
    /\ pc = "done"
    /\ pc' = "idle"
    /\ op' = "none"
    /\ board' = <<>>
    /\ legal_moves' = <<>>
    /\ codec' = <<>>
    /\ policy_probs' = <<>>
    /\ reported' = <<>>
    /\ printed' = <<>>
    /\ outcome' = "none"
    /\ result' = <<>>
    /\ loadTried' = FALSE
    /\ attempted' = <<>>
    /\ UNCHANGED <<_model, _encode_board, _encode_move>>

Next == test_func \/ reset_func \/ host_return

Spec == Init /\ [][Next]_vars

\* ------------------------------------------------------------------ claims
\* A test_func call has ended.
Decided == pc = "done" /\ op = "test_func"

\* The call loaded the model, found a legal move, and got a policy vector:
\* it went on to the codec lookups.
ReachedLookups ==
    /\ Decided
    /\ board # <<>>
    /\ outcome \notin {"raised RuntimeError: load", "raised: encode_board",
                       "raised: model"}

\* The legal moves whose lookup raised, and those whose index is out of range.
RaisedMoves == {m \in Range(board) : codec[m].raised}
OutOfRangeMoves ==
    {m \in Range(board) :
        ~codec[m].raised /\ (codec[m].idx < 0 \/ codec[m].idx >= POLICY_SIZE)}
InRangeMoves == Range(board) \ (RaisedMoves \cup OutOfRangeMoves)

\* Position of a move in the order the position generated its legal moves.
Pos(m) == CHOOSE i \in 1..Len(board) : board[i] = m

RECURSIVE SumFractions(_)
\* The sum of a dict's values as one fraction.
SumFractions(d) ==
    IF d = <<>> THEN <<0, 1>>
    ELSE LET r == SumFractions(Tail(d))
         IN <<d[1][2][1] * r[2] + r[1] * d[1][2][2], d[1][2][2] * r[2]>>

\* C1: when the position has a legal move and the call got as far as the codec
\* lookups, then whatever the lookups answered and whatever the policy vector
\* holds, test_func returns, and the move returned is one of the legal moves
\* enumerated in that call.
C1_ReturnsLegalMove ==
    ReachedLookups =>
        /\ outcome = "returned"
        /\ legal_moves = board
        /\ Len(result) = 1
        /\ result[1] \in Range(legal_moves)

\* C1 witness: a returned move for a position of three legal moves, one whose
\* lookup raised, one with an out-of-range index and one with a valid index.
C1_Witness ==
    /\ ReachedLookups
    /\ outcome = "returned"
    /\ Len(board) = 3
    /\ RaisedMoves # {} /\ OutOfRangeMoves # {} /\ InRangeMoves # {}

\* C2 (as claimed): for a position with no legal move, test_func raises the
\* "no legal moves" error and the Observer has received the empty
\* distribution exactly once.
C2_NoLegalMovesClaim ==
    (Decided /\ board = <<>>) =>
        /\ outcome = "raised ValueError: no legal moves"
        /\ reported = << <<>> >>

\* C3 (as claimed): every test_func call reports to the Observer exactly once,
\* whichever path it takes and also when a step of the call raises.
C3_ReportsExactlyOnceClaim == Decided => Len(reported) = 1

\* C4 (as claimed): when a move is returned, the keys of the distribution
\* reported are exactly the legal moves, and a move without a valid index has
\* a strictly positive probability when some other move has a valid index.
C4_KeysAreLegalMovesClaim ==
    (ReachedLookups /\ outcome = "returned") =>
        /\ Len(reported) = 1
        /\ Keys(reported[1]) = Range(board)
        /\ InRangeMoves # {} =>
              \A m \in RaisedMoves \cup OutOfRangeMoves :
                  Value(reported[1], m)[1] > 0

\* C5: when a move is returned, every probability of the distribution
\* reported is a non-negative fraction and the probabilities sum to 1.
C5_DistributionSumsToOne ==
    (Decided /\ outcome = "returned") =>
        /\ Len(reported) = 1
        /\ \A i \in 1..Len(reported[1]) :
              reported[1][i][2][1] >= 0 /\ reported[1][i][2][2] > 0
        /\ SumFractions(reported[1])[2] > 0
        /\ SumFractions(reported[1])[1] = SumFractions(reported[1])[2]

\* C5 witness: two moves with valid indices whose weights sum to exactly the
\* threshold, so the uniform fallback over the valid moves is taken.
C5_Witness ==
    /\ ReachedLookups
    /\ outcome = "returned"
    /\ Cardinality(InRangeMoves) >= 2
    /\ SumValues(RawMoveProbs(valid_moves(board, codec),
                              move_indices(board, codec), policy_probs)) = THRESHOLD

\* C6: when the lookup fails for every one of the N legal moves, the
\* distribution reported has exactly the legal moves as keys, each with
\* probability 1/N, and the move returned is the first legal move.
C6_AllLookupsFailUniform ==
    (ReachedLookups /\ InRangeMoves = {}) =>
        /\ outcome = "returned"
        /\ Len(reported) = 1
        /\ Len(reported[1]) = Len(board)
        /\ Keys(reported[1]) = Range(board)
        /\ \A m \in Range(board) :
              Value(reported[1], m)[1] * Len(board) = Value(reported[1], m)[2]
        /\ result = <<board[1]>>

\* C6 witness: three legal moves, some lookups raising and some out of range,
\* none valid, and the first legal move is not the lowest-numbered one.
C6_Witness ==
    /\ ReachedLookups
    /\ Len(board) = 3
    /\ InRangeMoves = {}
    /\ RaisedMoves # {} /\ OutOfRangeMoves # {}
    /\ board[1] = 3
    /\ outcome = "returned"

\* C7: the move returned is a key of the distribution reported in that call,
\* no key has a greater probability, and every other key with the same
\* probability comes later in the order the legal moves were enumerated (so
\* the move returned is determined by the position, the lookups and the
\* policy vector).
C7_ReturnsFirstMaximum ==
    (Decided /\ outcome = "returned") =>
        /\ Len(reported) = 1
        /\ Len(result) = 1
        /\ result[1] \in Keys(reported[1])
        /\ \A k \in Keys(reported[1]) :
              LET pk == Value(reported[1], k)
                  pr == Value(reported[1], result[1])
              IN /\ ~Less(pr, pk)
                 /\ (k # result[1] /\ ~Less(pk, pr)) => Pos(result[1]) < Pos(k)

\* C7 witness: two keys tie for the maximum above a third key, by weights
\* and not by the uniform fallback, and the move returned is not the
\* lowest-numbered of the two.
C7_Witness ==
    /\ Decided
    /\ outcome = "returned"
    /\ Len(reported[1]) = 3
    /\ \E k \in Keys(reported[1]) :
          /\ k < result[1]
          /\ Value(reported[1], k) = Value(reported[1], result[1])
    /\ \E k \in Keys(reported[1]) :
          Less(Value(reported[1], k), Value(reported[1], result[1]))

\* C8: reset_func always completes without raising, whichever cleanup
\* substeps fail and whether or not the model has been constructed, and every
\* substep is attempted: clearing the Observer, emptying the CUDA cache, and,
\* when there is a model, setting it to eval.
C8_ResetCompletes ==
    (pc = "done" /\ op = "reset_func") =>
        /\ outcome = "completed"
        /\ attempted =
             <<"logProbabilities", "empty_cache">>
               \o (IF _model.constructed THEN <<"eval">> ELSE <<>>)
        /\ printed[Len(printed)].msg = "reset_func: model/game reset completed"

\* C8 witness: a reset with a constructed model in which all three substeps
\* failed.
C8_Witness ==
    /\ pc = "done" /\ op = "reset_func"
    /\ _model.constructed
    /\ Len(printed) = 4
    /\ outcome = "completed"

\* The lines test_func and _load_model print on every call of their path.
RoutineLines ==
    {"Loading chess model from HuggingFace...", "Model loaded successfully!",
     "Error loading model", "Evaluating position...", "Position evaluation",
     "Top 3 moves"}

\* C9 (as claimed): every failure test_func absorbs is logged in that call:
\* one warning for each move whose lookup raised, one for each move whose
\* index is out of range, and a line flagging the uniform fallback whenever
\* it replaces the computed weights.
C9_AbsorbedFailuresLoggedClaim ==
    (ReachedLookups /\ outcome = "returned") =>
        /\ \A m \in RaisedMoves \cup OutOfRangeMoves :
              Cardinality({i \in 1..Len(printed) : printed[i].move = m}) = 1
        /\ (\/ InRangeMoves = {}
            \/ SumValues(RawMoveProbs(valid_moves(board, codec),
                                      move_indices(board, codec),
                                      policy_probs)) <= THRESHOLD)
           => \E i \in 1..Len(printed) :
                  printed[i].move = 0 /\ printed[i].msg \notin RoutineLines

\* C10 (as claimed): over any sequence of calls, a test_func call in which
\* _load_model returned holds a model whose weights were loaded and which was
\* put in eval mode, never a partially initialised one.
C10_NoPartialModelClaim ==
    (Decided /\ outcome # "raised RuntimeError: load") =>
        /\ _model.constructed
        /\ _model.weights
        /\ _model.evalMode

====
